---- MODULE Spec2Model ----
(***************************************************************************)
(* A model of go.uber.org/multierr: the flatten/compose algorithm of       *)
(* error.go (inspect, fromSlice, Combine, Append) and of its earlier       *)
(* variant (filterNil, findFirstErrorGroup, flattenTo, flatten,            *)
(* FromSlice), over an explicit heap of backing arrays, so that the        *)
(* aliasing of Go slices (shared backing array, spare capacity written by  *)
(* append) is part of the state; the rendering of a multiError (Error,      *)
(* String, Format and their writers, in error.go and in the earlier        *)
(* variants) over strings as sequences of characters; and the              *)
(* introspection of errors (Causes, Errors, Every) and AppendInto.         *)
(*                                                                         *)
(* An error value is a record [kind, id, arr, len, cap]:                   *)
(*   kind = "nil"    the nil error                                         *)
(*   kind = "plain"  a non-composite error, identified by id               *)
(*   kind = "multi"  a multiError: the slice header (arr, len, cap)        *)
(*   kind = "group"  an error of another type that has Causes() []error;   *)
(*                   Causes() returns the slice (arr, len, cap)            *)
(*   kind = "join"   what errors.Join returns; its Unwrap() []error        *)
(*                   returns the slice (arr, len, cap)                     *)
(* A slice header is a record of the same shape with kind = "slice".       *)
(* Every slice of the modelled code starts at index 0 of its array, so a   *)
(* header needs no offset.  mem[a] is backing array a, as long as its      *)
(* capacity; slots at and beyond a slice's len hold whatever was last      *)
(* written there (nil after make).                                         *)
(***************************************************************************)
EXTENDS Integers, Sequences, FiniteSets, TLC

VARIABLES
    mem,      \* the heap: mem[a] is backing array a (a sequence of error values)
    pc,       \* position of the sequential caller
    errors,   \* the slice the caller passes to Combine / FromSlice
    given,    \* the caller's record of what it passed, taken before the call
    reg,      \* the caller's named variables: errors, texts, what calls returned
    thr       \* the goroutines of the concurrent caller

vars == <<mem, pc, errors, given, reg, thr>>

----------------------------------------------------------------------------
(* Bounds of the model *)

\* number of distinct plain errors
NumErrs == 2

\* longest slice passed to Combine
MaxLen == 3

\* most Append calls that build the composite a caller starts from
MaxBuild == 4

\* goroutines appending to one shared composite, and appends of each
NumThreads == 3

NumAppends == 3

\* longest argument list such a caller passes to Combine
MaxCallArgs == 2

\* longest composite such a caller lets a variable hold
MaxSize == 4

\* the longest message of a rendered constituent
MaxMsgLen == 2

\* the most constituents of a rendered composite
MaxItems == 2

\* the longest message indented on its own
MaxTextLen == 5

\* the latest Write of a rendering that is the first to fail
MaxFailAt == 3

\* the longest list appended one by one in SpecLoop
MaxAppends == 4

\* the deepest stack of flattenTo calls SpecFlatten follows; the nesting of
\* the errors at hand needs three
MaxStack == 4

\* the goroutines of SpecPool, the calls of Error() they make together, and
\* the buffers the pool's New makes at most
NumCallers == 2

MaxCalls == 3

MaxBuffers == 3

----------------------------------------------------------------------------
(* Error values and slices *)

Nil == [kind |-> "nil", id |-> 0, arr |-> 0, len |-> 0, cap |-> 0]

Plain(i) == [kind |-> "plain", id |-> i, arr |-> 0, len |-> 0, cap |-> 0]

Slice(a, n, c) == [kind |-> "slice", id |-> 0, arr |-> a, len |-> n, cap |-> c]

\* the conversion multiError(s) of a slice, and []error(me) back
multiError(s) == [s EXCEPT !.kind = "multi"]

AsSlice(e) == [e EXCEPT !.kind = "slice", !.id = 0]

\* an error of a foreign type whose Causes() returns the slice s
Group(i, s) == [s EXCEPT !.kind = "group", !.id = i]

\* the i-th element (0-based, as in Go) of slice s in heap m
At(m, s, i) == m[s.arr][i + 1]

\* the elements s[0:len(s)] of slice s
Elems(m, s) == IF s.len = 0 THEN <<>> ELSE SubSeq(m[s.arr], 1, s.len)

\* a sequence of k nil slots
RECURSIVE Zeroed(_)
Zeroed(k) == IF k = 0 THEN <<>> ELSE Append(Zeroed(k - 1), Nil)

\* make([]error, 0, c), and a slice literal / variadic argument list holding xs
Make(m, c) ==
    [mem |-> Append(m, Zeroed(c)), ret |-> Slice(Len(m) + 1, 0, c)]

Literal(m, xs) ==
    [mem |-> Append(m, xs), ret |-> Slice(Len(m) + 1, Len(xs), Len(xs))]

\* runtime.growslice for a slice of capacity c that needs room for n elements:
\* the requested size if that exceeds twice the capacity, else twice the
\* capacity (capacities stay far below the 256-element threshold, and at 16
\* bytes an element every capacity up to 16 is a size class of its own)
growslice(c, n) == IF n > 2 * c THEN n ELSE 2 * c

\* the builtin append(s, x): writes slot len(s) of the backing array when the
\* capacity allows, whoever else holds that array; otherwise copies s into a
\* new, larger array.
GoAppend(m, s, x) ==
    IF s.len < s.cap
    THEN [mem |-> [m EXCEPT ![s.arr][s.len + 1] = x],
          ret |-> [s EXCEPT !.len = s.len + 1]]
    ELSE LET c == growslice(s.cap, s.len + 1)
             a == Elems(m, s) \o <<x>> \o Zeroed(c - s.len - 1)
         IN [mem |-> Append(m, a), ret |-> Slice(Len(m) + 1, s.len + 1, c)]

\* append(s, xs...)
RECURSIVE GoAppendAll(_, _, _)
GoAppendAll(m, s, xs) ==
    IF xs = <<>> THEN [mem |-> m, ret |-> s]
    ELSE LET r == GoAppend(m, s, Head(xs))
         IN GoAppendAll(r.mem, r.ret, Tail(xs))

----------------------------------------------------------------------------
(* error.go: inspect, fromSlice, Combine, Append *)

\* inspect's loop never setting ContainsMultiError
RECURSIVE inspectFrom_NoMultiFlag(_, _, _, _, _)
inspectFrom_NoMultiFlag(m, s, i, first, res) ==
    IF i >= s.len THEN res
    ELSE LET err == At(m, s, i) IN
         IF err.kind = "nil" THEN inspectFrom_NoMultiFlag(m, s, i + 1, first, res)
         ELSE LET r1 == [res EXCEPT !.Count = res.Count + 1,
                                    !.FirstErrorIdx =
                                        IF first THEN i ELSE res.FirstErrorIdx]
                  r2 == IF err.kind = "multi"
                        THEN [r1 EXCEPT !.Capacity = r1.Capacity + err.len]
                        ELSE [r1 EXCEPT !.Capacity = r1.Capacity + 1]
              IN inspectFrom_NoMultiFlag(m, s, i + 1, FALSE, r2)

\* the loop of inspect from index i on, res being the result so far; first is
\* the loop's flag "no non-nil error seen yet"
RECURSIVE inspectFrom(_, _, _, _, _)
inspectFrom(m, s, i, first, res) ==
    IF i >= s.len THEN res
    ELSE LET err == At(m, s, i) IN
         IF err.kind = "nil" THEN inspectFrom(m, s, i + 1, first, res)
         ELSE LET r1 == [res EXCEPT !.Count = res.Count + 1,
                                    !.FirstErrorIdx =
                                        IF first THEN i ELSE res.FirstErrorIdx]
                  r2 == IF err.kind = "multi"
                        THEN [r1 EXCEPT !.Capacity = r1.Capacity + err.len,
                                        !.ContainsMultiError = TRUE]
                        ELSE [r1 EXCEPT !.Capacity = r1.Capacity + 1]
              IN inspectFrom(m, s, i + 1, FALSE, r2)

inspect(m, s) ==
    inspectFrom(m, s, 0, TRUE,
                [Count |-> 0, Capacity |-> 0, FirstErrorIdx |-> 0,
                 ContainsMultiError |-> FALSE])

\* fromSlice's copying loop appending a nested multiError as one element
\* instead of its elements
RECURSIVE fromSliceLoop_NoFlatten(_, _, _, _)
fromSliceLoop_NoFlatten(m, s, i, me) ==
    IF i >= s.len THEN [mem |-> m, ret |-> me]
    ELSE LET err == At(m, s, i) IN
         IF err.kind = "nil" THEN fromSliceLoop_NoFlatten(m, s, i + 1, me)
         ELSE LET r == GoAppend(m, me, err)
              IN fromSliceLoop_NoFlatten(r.mem, s, i + 1, r.ret)

\* the copying loop of fromSlice over errors[i:], appending to me
RECURSIVE fromSliceLoop(_, _, _, _)
fromSliceLoop(m, s, i, me) ==
    IF i >= s.len THEN [mem |-> m, ret |-> me]
    ELSE LET err == At(m, s, i) IN
         IF err.kind = "nil" THEN fromSliceLoop(m, s, i + 1, me)
         ELSE LET r == IF err.kind = "multi"
                       THEN GoAppendAll(m, me, Elems(m, AsSlice(err)))
                       ELSE GoAppend(m, me, err)
              IN fromSliceLoop(r.mem, s, i + 1, r.ret)

\* fromSlice without its "case 0"
fromSlice_NoZeroCase(m, s) ==
    LET res == inspect(m, s) IN
    IF res.Count = 1 /\ s.len > 0
    THEN [mem |-> m, ret |-> At(m, s, res.FirstErrorIdx)]
    ELSE IF res.Count = s.len /\ ~res.ContainsMultiError
         THEN [mem |-> m, ret |-> multiError(s)]
    ELSE LET mk == Make(m, res.Capacity)
             r  == fromSliceLoop(mk.mem, s, res.FirstErrorIdx, mk.ret)
         IN [mem |-> r.mem, ret |-> multiError(r.ret)]

\* fromSlice returning errors[0] in its "case 1"
fromSlice_FirstSlot(m, s) ==
    LET res == inspect(m, s) IN
    IF res.Count = 0 THEN [mem |-> m, ret |-> Nil]
    ELSE IF res.Count = 1 THEN [mem |-> m, ret |-> At(m, s, 0)]
    ELSE IF res.Count = s.len /\ ~res.ContainsMultiError
         THEN [mem |-> m, ret |-> multiError(s)]
    ELSE LET mk == Make(m, res.Capacity)
             r  == fromSliceLoop(mk.mem, s, res.FirstErrorIdx, mk.ret)
         IN [mem |-> r.mem, ret |-> multiError(r.ret)]

fromSlice(m, s) ==
    LET res == inspect(m, s) IN
    IF res.Count = 0 THEN [mem |-> m, ret |-> Nil]
    ELSE IF res.Count = 1 THEN [mem |-> m, ret |-> At(m, s, res.FirstErrorIdx)]
    ELSE IF res.Count = s.len /\ ~res.ContainsMultiError
         THEN [mem |-> m, ret |-> multiError(s)]
    ELSE LET mk == Make(m, res.Capacity)
             r  == fromSliceLoop(mk.mem, s, res.FirstErrorIdx, mk.ret)
         IN [mem |-> r.mem, ret |-> multiError(r.ret)]

Combine(m, s) == fromSlice(m, s)

\* a call Combine(x1, ..., xn): the arguments are passed in a new slice
CombineOf(m, xs) ==
    LET a == Literal(m, xs) IN Combine(a.mem, a.ret)

\* Append building multiError{right, left} of two single errors
multierrAppend_Swapped(m, left, right) ==
    IF left.kind = "nil" THEN [mem |-> m, ret |-> right]
    ELSE IF right.kind = "nil" THEN [mem |-> m, ret |-> left]
    ELSE IF right.kind # "multi"
         THEN IF left.kind = "multi"
              THEN LET r == GoAppend(m, AsSlice(left), right)
                   IN [mem |-> r.mem, ret |-> multiError(r.ret)]
              ELSE LET r == Literal(m, <<right, left>>)
                   IN [mem |-> r.mem, ret |-> multiError(r.ret)]
    ELSE LET a == Literal(m, <<left, right>>)
         IN fromSlice(a.mem, a.ret)

\* Append taking its fast path whatever right is
multierrAppend_NoRightCheck(m, left, right) ==
    IF left.kind = "nil" THEN [mem |-> m, ret |-> right]
    ELSE IF right.kind = "nil" THEN [mem |-> m, ret |-> left]
    ELSE IF left.kind = "multi"
         THEN LET r == GoAppend(m, AsSlice(left), right)
              IN [mem |-> r.mem, ret |-> multiError(r.ret)]
         ELSE LET r == Literal(m, <<left, right>>)
              IN [mem |-> r.mem, ret |-> multiError(r.ret)]

\* Append(left, right) of error.go
multierrAppend(m, left, right) ==
    IF left.kind = "nil" THEN [mem |-> m, ret |-> right]
    ELSE IF right.kind = "nil" THEN [mem |-> m, ret |-> left]
    ELSE IF right.kind # "multi"
         THEN IF left.kind = "multi"
              THEN LET r == GoAppend(m, AsSlice(left), right)
                   IN [mem |-> r.mem, ret |-> multiError(r.ret)]
              ELSE LET r == Literal(m, <<left, right>>)
                   IN [mem |-> r.mem, ret |-> multiError(r.ret)]
    ELSE LET a == Literal(m, <<left, right>>)
         IN fromSlice(a.mem, a.ret)

----------------------------------------------------------------------------
(* The earlier variant: every error with Causes() []error is an errorGroup, *)
(* multiError among them; FromSlice flattens through filterNil, flatten and *)
(* flattenTo.                                                               *)

\* Amount of space reserved in a slice when flattening nested errorGroups
_errorBuffer == 8

\* the type assertion err.(errorGroup)
IsErrorGroup(err) == err.kind \in {"multi", "group"}

\* Causes() leaving out the last error
Causes_DropLast(err) == [AsSlice(err) EXCEPT !.len = @ - 1]

\* Causes() of an errorGroup
Causes(err) == AsSlice(err)

\* the loop of filterNil over errors from index i on; newErrors starts as
\* errors[:0], so every append writes the array it is reading
RECURSIVE filterNilFrom(_, _, _, _)
filterNilFrom(m, s, i, newErrors) ==
    IF i >= s.len THEN [mem |-> m, ret |-> newErrors]
    ELSE LET err == At(m, s, i) IN
         IF err.kind # "nil"
         THEN LET r == GoAppend(m, newErrors, err)
              IN filterNilFrom(r.mem, s, i + 1, r.ret)
         ELSE filterNilFrom(m, s, i + 1, newErrors)

filterNil(m, s) == filterNilFrom(m, s, 0, [s EXCEPT !.len = 0])

\* the first index from i on holding an errorGroup, -1 if there is none
RECURSIVE findFirstErrorGroupFrom(_, _, _)
findFirstErrorGroupFrom(m, s, i) ==
    IF i >= s.len THEN -1
    ELSE IF IsErrorGroup(At(m, s, i)) THEN i
    ELSE findFirstErrorGroupFrom(m, s, i + 1)

findFirstErrorGroup(m, s) == findFirstErrorGroupFrom(m, s, 0)

\* flattenTo(dest, src[i:]): appends the non-group errors of src to dest,
\* descending into the Causes() of every errorGroup
RECURSIVE flattenToFrom(_, _, _, _)
flattenToFrom(m, dest, src, i) ==
    IF i >= src.len THEN [mem |-> m, ret |-> dest]
    ELSE LET err == At(m, src, i) IN
         IF err.kind = "nil" THEN flattenToFrom(m, dest, src, i + 1)
         ELSE LET r == IF IsErrorGroup(err)
                       THEN flattenToFrom(m, dest, Causes(err), 0)
                       ELSE GoAppend(m, dest, err)
              IN flattenToFrom(r.mem, r.ret, src, i + 1)

flattenTo(m, dest, src) == flattenToFrom(m, dest, src, 0)

\* flatten(errors); a nil result is the slice of length and capacity 0
flatten(m, s) ==
    LET f == filterNil(m, s) IN
    IF f.ret.len = 0 THEN [mem |-> f.mem, ret |-> Slice(0, 0, 0)]
    ELSE LET idx == findFirstErrorGroup(f.mem, f.ret) IN
         IF idx < 0 THEN f
         ELSE LET mk == Make(f.mem, f.ret.len + _errorBuffer)
                  hd == GoAppendAll(mk.mem, mk.ret,
                                    Elems(mk.mem, [f.ret EXCEPT !.len = idx]))
              IN flattenToFrom(hd.mem, hd.ret, f.ret, idx)

FromSlice(m, s) ==
    LET f == flatten(m, s) IN
    IF f.ret.len = 0 THEN [mem |-> f.mem, ret |-> Nil]
    ELSE IF f.ret.len = 1 THEN [mem |-> f.mem, ret |-> At(f.mem, f.ret, 0)]
    ELSE [mem |-> f.mem, ret |-> multiError(f.ret)]

----------------------------------------------------------------------------
(* What a caller observes of an error *)

\* the value of an error as a test compares it: its kind, its identity if it
\* is not a multiError, and the values of its constituents in order
RECURSIVE View(_, _)
View(m, e) ==
    IF e.kind \in {"multi", "group"}
    THEN <<e.kind, e.id, [i \in 1..e.len |-> View(m, m[e.arr][i])]>>
    ELSE <<e.kind, e.id, <<>>>>

\* the constituents of a multiError
Constituents(m, e) == Elems(m, AsSlice(e))

\* xs without its nils
RECURSIVE StripNil(_)
StripNil(xs) ==
    IF xs = <<>> THEN <<>>
    ELSE IF Head(xs).kind = "nil" THEN StripNil(Tail(xs))
    ELSE <<Head(xs)>> \o StripNil(Tail(xs))

\* xs with every nil removed and every multiError replaced by its constituents
RECURSIVE Flat(_, _)
Flat(m, xs) ==
    IF xs = <<>> THEN <<>>
    ELSE LET x == Head(xs) IN
         (IF x.kind = "nil" THEN <<>>
          ELSE IF x.kind = "multi" THEN Constituents(m, x)
          ELSE <<x>>) \o Flat(m, Tail(xs))

\* xs flattened through every error that has Causes(), at every depth
RECURSIVE DeepFlat(_, _)
DeepFlat(m, xs) ==
    IF xs = <<>> THEN <<>>
    ELSE LET x == Head(xs) IN
         (IF x.kind = "nil" THEN <<>>
          ELSE IF IsErrorGroup(x) THEN DeepFlat(m, Constituents(m, x))
          ELSE <<x>>) \o DeepFlat(m, Tail(xs))

----------------------------------------------------------------------------
(* The errors a caller has at hand *)

\* the heap before the caller builds its argument list:
\*   array 1  Combine(e1, e2)
\*   array 2  Append(Append(e2, e1), e1): three errors in an array grown to four
\*   array 3  multiError{e1}, as the package's tests build it
\*   array 4  the causes of a foreign errorGroup: e1 and the multiError of array 1
M1 == multiError(Slice(1, 2, 2))

M2 == multiError(Slice(2, 3, 4))

M3 == multiError(Slice(3, 1, 1))

G1 == Group(1, Slice(4, 2, 2))

Heap0 == << <<Plain(1), Plain(2)>>,
            <<Plain(2), Plain(1), Plain(1), Nil>>,
            <<Plain(1)>>,
            <<Plain(1), M1>> >>

Plains == {Plain(i) : i \in 1..NumErrs}

\* what an element of an argument list may be
Args == {Nil} \cup Plains \cup {M1, M2, M3, G1}

\* the argument lists of length n
ArgLists(n) == [1..n -> Args]

NoThreads == <<>>

----------------------------------------------------------------------------
(* Spec: a caller passes one slice to Combine (error.go) or to FromSlice    *)
(* (the earlier variant)                                                    *)

Init ==
    \E n \in 0..MaxLen : \E xs \in ArgLists(n) :
        LET a == Literal(Heap0, xs) IN
        /\ mem = a.mem
        /\ errors = a.ret
        /\ given = [elems |-> xs, flat |-> Flat(Heap0, xs),
                    deep |-> DeepFlat(Heap0, xs)]
        /\ pc = "start"
        /\ reg = [ret |-> Nil]
        /\ thr = NoThreads

CallCombine ==
    /\ pc = "start"
    /\ LET r == Combine(mem, errors) IN
        /\ mem' = r.mem
        /\ reg' = [reg EXCEPT !.ret = r.ret]
    /\ pc' = "combined"
    /\ UNCHANGED <<errors, given, thr>>

CallFromSlice ==
    /\ pc = "start"
    /\ LET r == FromSlice(mem, errors) IN
        /\ mem' = r.mem
        /\ reg' = [reg EXCEPT !.ret = r.ret]
    /\ pc' = "fromsliced"
    /\ UNCHANGED <<errors, given, thr>>

Next == CallCombine \/ CallFromSlice

Spec == Init /\ [][Next]_vars

AllNil(xs) == \A i \in 1..Len(xs) : xs[i].kind = "nil"

\* C3: when the flattened input has two or more errors, Combine returns a
\* multiError whose constituents are the input without its nils and with
\* every multiError replaced in place by its constituents, order and
\* duplicates kept; and it is the value Combine returns for the same input
\* with the nils left out.
C3_CombineFlattensInOrder ==
    (pc = "combined" /\ Len(given.flat) >= 2) =>
        /\ reg.ret.kind = "multi"
        /\ Constituents(mem, reg.ret) = given.flat
        /\ LET a == Literal(mem, StripNil(given.elems))
               r == Combine(a.mem, a.ret)
           IN View(r.mem, r.ret) = View(mem, reg.ret)

C3_Witness ==
    /\ pc = "combined"
    /\ Len(given.elems) = 3
    /\ given.elems[1].kind = "nil"
    /\ given.elems[2] = M2
    /\ given.elems[3] = Plain(2)
    /\ Constituents(mem, reg.ret) = <<Plain(2), Plain(1), Plain(1), Plain(2)>>

\* C4: Combine of no arguments, or of nils only, returns nil.
C4_CombineOfNilsIsNil ==
    (pc = "combined" /\ AllNil(given.elems)) => reg.ret = Nil

C4_Witness ==
    /\ pc = "combined"
    /\ Len(given.elems) >= 2
    /\ AllNil(given.elems)
    /\ reg.ret = Nil

\* C5: when exactly one element of the input is not nil, Combine returns that
\* element itself, at whatever index it is.
C5_CombineOfOneIsItself ==
    (pc = "combined" /\ Len(StripNil(given.elems)) = 1) =>
        reg.ret = StripNil(given.elems)[1]

C5_Witness ==
    /\ pc = "combined"
    /\ Len(given.elems) = 3
    /\ given.elems[1].kind = "nil"
    /\ given.elems[2] = Plain(1)
    /\ given.elems[3].kind = "nil"
    /\ reg.ret = Plain(1)

\* C7: Combine does not change the slice it is given: after the call, of
\* either variant, the caller's slice holds at every index what it held before.
C7_CombineKeepsInput ==
    (pc \in {"combined", "fromsliced"}) => Elems(mem, errors) = given.elems

\* the same of error.go's Combine alone
fromSliceKeepsInput ==
    (pc = "combined") => Elems(mem, errors) = given.elems

\* C10: Combine flattens through every element that has the constituent-list
\* capability, a foreign errorGroup included, at every depth: the result's
\* constituents are the non-composite errors of the input in order, and none
\* of them is a composite.
C10_CombineFlattensByCapability ==
    (pc \in {"combined", "fromsliced"} /\ Len(given.deep) >= 2) =>
        /\ reg.ret.kind = "multi"
        /\ Constituents(mem, reg.ret) = given.deep
        /\ \A i \in 1..reg.ret.len :
               ~IsErrorGroup(Constituents(mem, reg.ret)[i])

\* the same of the earlier variant's FromSlice alone
FromSliceFlattensByCapability ==
    (pc = "fromsliced" /\ Len(given.deep) >= 2) =>
        /\ reg.ret.kind = "multi"
        /\ Constituents(mem, reg.ret) = given.deep
        /\ \A i \in 1..reg.ret.len :
               ~IsErrorGroup(Constituents(mem, reg.ret)[i])

----------------------------------------------------------------------------
(* SpecAssoc: a caller with three errors combines them nested to the left,  *)
(* nested to the right, and all at once                                     *)

InitAssoc ==
    \E e1 \in Args, e2 \in Args, e3 \in Args :
        /\ mem = Heap0
        /\ errors = Slice(0, 0, 0)
        /\ given = [elems |-> <<e1, e2, e3>>, flat |-> Flat(Heap0, <<e1, e2, e3>>),
                    deep |-> DeepFlat(Heap0, <<e1, e2, e3>>)]
        /\ pc = "inner12"
        /\ reg = [e1 |-> e1, e2 |-> e2, e3 |-> e3, in12 |-> Nil, lft |-> Nil,
                  in23 |-> Nil, rgt |-> Nil, all |-> Nil]
        /\ thr = NoThreads

\* in12 = Combine(e1, e2)
AssocInner12 ==
    /\ pc = "inner12"
    /\ LET r == CombineOf(mem, <<reg.e1, reg.e2>>) IN
        /\ mem' = r.mem
        /\ reg' = [reg EXCEPT !.in12 = r.ret]
    /\ pc' = "left"
    /\ UNCHANGED <<errors, given, thr>>

\* lft = Combine(in12, e3)
AssocLeft ==
    /\ pc = "left"
    /\ LET r == CombineOf(mem, <<reg.in12, reg.e3>>) IN
        /\ mem' = r.mem
        /\ reg' = [reg EXCEPT !.lft = r.ret]
    /\ pc' = "inner23"
    /\ UNCHANGED <<errors, given, thr>>

\* in23 = Combine(e2, e3)
AssocInner23 ==
    /\ pc = "inner23"
    /\ LET r == CombineOf(mem, <<reg.e2, reg.e3>>) IN
        /\ mem' = r.mem
        /\ reg' = [reg EXCEPT !.in23 = r.ret]
    /\ pc' = "right"
    /\ UNCHANGED <<errors, given, thr>>

\* rgt = Combine(e1, in23)
AssocRight ==
    /\ pc = "right"
    /\ LET r == CombineOf(mem, <<reg.e1, reg.in23>>) IN
        /\ mem' = r.mem
        /\ reg' = [reg EXCEPT !.rgt = r.ret]
    /\ pc' = "flat"
    /\ UNCHANGED <<errors, given, thr>>

\* all = Combine(e1, e2, e3)
AssocFlat ==
    /\ pc = "flat"
    /\ LET r == CombineOf(mem, <<reg.e1, reg.e2, reg.e3>>) IN
        /\ mem' = r.mem
        /\ reg' = [reg EXCEPT !.all = r.ret]
    /\ pc' = "assoc_done"
    /\ UNCHANGED <<errors, given, thr>>

NextAssoc ==
    AssocInner12 \/ AssocLeft \/ AssocInner23 \/ AssocRight \/ AssocFlat

SpecAssoc == InitAssoc /\ [][NextAssoc]_vars

\* C6: Combine(Combine(e1, e2), e3) and Combine(e1, Combine(e2, e3)) both
\* equal Combine(e1, e2, e3), for e1, e2, e3 each nil, plain or composite.
C6_CombineAssociative ==
    (pc = "assoc_done") =>
        /\ View(mem, reg.lft) = View(mem, reg.all)
        /\ View(mem, reg.rgt) = View(mem, reg.all)

C6_Witness ==
    /\ pc = "assoc_done"
    /\ reg.e1 = M1
    /\ reg.e2 = Plain(2)
    /\ reg.e3 = M2
    /\ reg.in12.kind = "multi"
    /\ reg.in23.kind = "multi"
    /\ Constituents(mem, reg.lft) =
           <<Plain(1), Plain(2), Plain(2), Plain(2), Plain(1), Plain(1)>>
    /\ View(mem, reg.rgt) = View(mem, reg.lft)

----------------------------------------------------------------------------
(* SpecAppend: a caller appends right to left, then combines the same two   *)

InitAppend ==
    \E l \in Args, r \in Args :
        /\ mem = Heap0
        /\ errors = Slice(0, 0, 0)
        /\ given = [elems |-> <<l, r>>, flat |-> Flat(Heap0, <<l, r>>),
                    deep |-> DeepFlat(Heap0, <<l, r>>)]
        /\ pc = "start"
        /\ reg = [left |-> l, right |-> r, ret |-> Nil, comb |-> Nil]
        /\ thr = NoThreads

\* ret = Append(left, right)
CallAppend ==
    /\ pc = "start"
    /\ LET r == multierrAppend(mem, reg.left, reg.right) IN
        /\ mem' = r.mem
        /\ reg' = [reg EXCEPT !.ret = r.ret]
    /\ pc' = "appended"
    /\ UNCHANGED <<errors, given, thr>>

\* comb = Combine(left, right)
CallCombineBoth ==
    /\ pc = "appended"
    /\ LET r == CombineOf(mem, <<reg.left, reg.right>>) IN
        /\ mem' = r.mem
        /\ reg' = [reg EXCEPT !.comb = r.ret]
    /\ pc' = "compared"
    /\ UNCHANGED <<errors, given, thr>>

NextAppend == CallAppend \/ CallCombineBoth

SpecAppend == InitAppend /\ [][NextAppend]_vars

\* C8: Append(left, right) is right itself when left is nil and left itself
\* when right is nil; of two non-nil errors it is a multiError of left's
\* constituents (or left) followed by right's (or right), equal to
\* Combine(left, right).
C8_AppendIsCombineOfTwo ==
    /\ (pc # "start" /\ reg.left.kind = "nil") => reg.ret = reg.right
    /\ (pc # "start" /\ reg.right.kind = "nil") => reg.ret = reg.left
    /\ (pc # "start" /\ reg.left.kind # "nil" /\ reg.right.kind # "nil") =>
           /\ reg.ret.kind = "multi"
           /\ Constituents(mem, reg.ret) = given.flat
    /\ (pc = "compared") => View(mem, reg.ret) = View(mem, reg.comb)

C8_Witness ==
    /\ pc = "compared"
    /\ reg.left = M2
    /\ reg.right = Plain(2)
    /\ reg.ret.arr = M2.arr
    /\ Constituents(mem, reg.ret) = <<Plain(2), Plain(1), Plain(1), Plain(2)>>
    /\ reg.comb.arr # reg.ret.arr

----------------------------------------------------------------------------
(* SpecTwice: a caller builds a composite by repeated Append, then appends  *)
(* to it twice, keeping both results                                        *)

InitTwice ==
    /\ mem = <<>>
    /\ errors = Slice(0, 0, 0)
    /\ given = [elems |-> <<>>, flat |-> <<>>, deep |-> <<>>]
    /\ pc = "build"
    /\ reg = [initial |-> Nil, n |-> 0, a |-> Nil, b |-> Nil,
              err1 |-> Nil, err2 |-> Nil]
    /\ thr = NoThreads

\* initial = Append(initial, e)
BuildInitial ==
    /\ pc = "build"
    /\ reg.n < MaxBuild
    /\ \E e \in Plains :
        LET r == multierrAppend(mem, reg.initial, e) IN
        /\ mem' = r.mem
        /\ reg' = [reg EXCEPT !.initial = r.ret, !.n = reg.n + 1]
        /\ given' = [given EXCEPT !.elems = Append(given.elems, e)]
    /\ UNCHANGED <<pc, errors, thr>>

\* err1 = Append(initial, a)
AppendFirst ==
    /\ pc = "build"
    /\ reg.initial.kind = "multi"
    /\ \E a \in Plains :
        LET r == multierrAppend(mem, reg.initial, a) IN
        /\ mem' = r.mem
        /\ reg' = [reg EXCEPT !.a = a, !.err1 = r.ret]
    /\ pc' = "once"
    /\ UNCHANGED <<errors, given, thr>>

\* err2 = Append(initial, b)
AppendSecond ==
    /\ pc = "once"
    /\ \E b \in Plains :
        LET r == multierrAppend(mem, reg.initial, b) IN
        /\ mem' = r.mem
        /\ reg' = [reg EXCEPT !.b = b, !.err2 = r.ret]
    /\ pc' = "twice"
    /\ UNCHANGED <<errors, given, thr>>

NextTwice == BuildInitial \/ AppendFirst \/ AppendSecond

SpecTwice == InitTwice /\ [][NextTwice]_vars

\* C1: after err1 = Append(initial, a) and err2 = Append(initial, b), initial
\* has the constituents it was built with, err1 has them followed by a, and
\* err2 has them followed by b.
C1_AppendTwiceKeepsAll ==
    (pc = "twice") =>
        /\ Constituents(mem, reg.initial) = given.elems
        /\ Constituents(mem, reg.err1) = Append(given.elems, reg.a)
        /\ Constituents(mem, reg.err2) = Append(given.elems, reg.b)

\* what does hold of error.go's Append: initial itself keeps its constituents,
\* and the result of the later call is right
AppendTwiceKeepsInitial ==
    (pc = "twice") =>
        /\ Constituents(mem, reg.initial) = given.elems
        /\ Constituents(mem, reg.err2) = Append(given.elems, reg.b)

----------------------------------------------------------------------------
(* SpecRace: goroutines each start from one shared composite and append     *)
(* their own errors to their own copy of the variable.  A step is one call  *)
(* of Append: the call's only access to shared memory is its one write of   *)
(* a slot (or its copy of the array), so interleaving whole calls gives     *)
(* every value the racing writes can leave in the slot.                     *)

\* appendN of the tests: n times errs = Append(errs, err)
RECURSIVE appendN(_, _, _, _)
appendN(m, initial, err, n) ==
    IF n = 0 THEN [mem |-> m, ret |-> initial]
    ELSE LET r == appendN(m, initial, err, n - 1)
         IN multierrAppend(r.mem, r.ret, err)

\* the errors a composite with spare capacity is built from
InitialLen == 5

\* createMultiErrWithCapacity of the tests
createMultiErrWithCapacity == appendN(<<>>, Nil, Plain(1), InitialLen)

\* the j-th error goroutine t appends
ThreadErr(t, j) == Plain(10 * t + j)

\* the errors goroutine t has appended after j appends
RECURSIVE OwnErrs(_, _)
OwnErrs(t, j) == IF j = 0 THEN <<>> ELSE Append(OwnErrs(t, j - 1), ThreadErr(t, j))

InitRace ==
    LET c == createMultiErrWithCapacity IN
    /\ mem = c.mem
    /\ errors = Slice(0, 0, 0)
    /\ given = [elems |-> Constituents(c.mem, c.ret), flat |-> <<>>, deep |-> <<>>]
    /\ pc = "race"
    /\ reg = [initial |-> c.ret]
    /\ thr = [t \in 1..NumThreads |-> [err |-> c.ret, j |-> 0]]

\* goroutine t: err = Append(err, e)
ThreadAppend(t) ==
    /\ pc = "race"
    /\ thr[t].j < NumAppends
    /\ LET r == multierrAppend(mem, thr[t].err, ThreadErr(t, thr[t].j + 1)) IN
        /\ mem' = r.mem
        /\ thr' = [thr EXCEPT ![t] = [err |-> r.ret, j |-> thr[t].j + 1]]
    /\ UNCHANGED <<pc, errors, given, reg>>

NextRace == \E t \in 1..NumThreads : ThreadAppend(t)

SpecRace == InitRace /\ [][NextRace]_vars

\* C2: under every interleaving the shared initial composite keeps its
\* constituents, and the result of a goroutine that has made all its appends
\* is the initial constituents followed by that goroutine's own errors in
\* its own order.
C2_RacingAppendsKeepOwnChain ==
    /\ Constituents(mem, reg.initial) = given.elems
    /\ \A t \in 1..NumThreads :
           (thr[t].j = NumAppends) =>
               Constituents(mem, thr[t].err) =
                   given.elems \o OwnErrs(t, NumAppends)

----------------------------------------------------------------------------
(* SpecCalls: a caller keeps error variables and makes any sequence of      *)
(* Combine and Append calls on nils, plain errors and its variables         *)

\* the caller's error variables
RegNames == {"x", "y"}

\* what the caller can pass: nil, a plain error, or one of its variables.
\* Neither Combine nor Append looks at which plain error it is given, so one
\* plain error stands for all of them here.
Operands == {Nil, Plain(1)} \cup {reg.r[k] : k \in RegNames}

\* the arrays the errors xs refer to
Refs(xs) ==
    {xs[i].arr : i \in {j \in 1..Len(xs) : xs[j].kind \in {"multi", "group"}}}

\* the arrays reachable from the arrays S
RECURSIVE Reach(_, _)
Reach(m, S) ==
    LET T == S \cup UNION {Refs(m[a]) : a \in S}
    IN IF T = S THEN S ELSE Reach(m, T)

\* garbage collection: the heap m without the arrays no variable reaches. The
\* arrays S that stay are renumbered in their order; Moved is a value with its
\* array renumbered likewise.
Rank(S, a) == Cardinality({b \in S : b <= a})

Moved(S, e) ==
    IF e.kind \in {"multi", "group", "slice"} /\ e.arr \in S
    THEN [e EXCEPT !.arr = Rank(S, e.arr)]
    ELSE e

Collect(m, S) ==
    [k \in 1..Cardinality(S) |->
        LET a == CHOOSE b \in S : Rank(S, b) = k
        IN [i \in 1..Len(m[a]) |-> Moved(S, m[a][i])]]

InitCalls ==
    /\ mem = <<>>
    /\ errors = Slice(0, 0, 0)
    /\ given = [elems |-> <<>>, flat |-> <<>>, deep |-> <<>>]
    /\ pc = "calls"
    /\ reg = [r |-> [k \in RegNames |-> Nil], last |-> "none"]
    /\ thr = NoThreads

\* the caller stores the result c of a call in variable k; what no variable
\* reaches any more is collected
StoreResult(k, c, op) ==
    LET r == [reg.r EXCEPT ![k] = c.ret]
        S == Reach(c.mem, {r[j].arr : j \in {v \in RegNames : r[v].kind = "multi"}})
    IN /\ c.ret.len <= MaxSize
       /\ mem' = Collect(c.mem, S)
       /\ reg' = [r |-> [j \in RegNames |-> Moved(S, r[j])], last |-> op]

\* r[k] = Combine(x1, ..., xn)
CallCombineOn(k) ==
    /\ pc = "calls"
    /\ \E n \in 0..MaxCallArgs : \E xs \in [1..n -> Operands] :
        StoreResult(k, CombineOf(mem, xs), "Combine")
    /\ UNCHANGED <<pc, errors, given, thr>>

\* r[k] = Append(x, y)
CallAppendOn(k) ==
    /\ pc = "calls"
    /\ \E x \in Operands, y \in Operands :
        StoreResult(k, multierrAppend(mem, x, y), "Append")
    /\ UNCHANGED <<pc, errors, given, thr>>

NextCalls == \E k \in RegNames : CallCombineOn(k) \/ CallAppendOn(k)

SpecCalls == InitCalls /\ [][NextCalls]_vars

\* a multiError with at least two constituents, none nil, none a composite
WellFormed(m, e) ==
    /\ e.len >= 2
    /\ \A i \in 1..e.len :
           Constituents(m, e)[i].kind \notin {"nil", "multi", "group"}

\* C9: after any sequence of Combine and Append calls on nils, plain errors
\* and earlier results, every composite the caller holds has at least two
\* constituents, no nil constituent and no composite constituent.
C9_ResultsWellFormed ==
    \A k \in RegNames :
        (reg.r[k].kind = "multi") => WellFormed(mem, reg.r[k])

C9_Witness ==
    /\ reg.last = "Append"
    /\ reg.r["x"].kind = "multi"
    /\ reg.r["y"].kind = "multi"
    /\ reg.r["x"].arr = reg.r["y"].arr
    /\ reg.r["x"].len = 3
    /\ reg.r["y"].len = 4
    /\ WellFormed(mem, reg.r["y"])

----------------------------------------------------------------------------
(* Rendering.  A string is the sequence of its characters, each a string of  *)
(* length one, so that searching for "\n", slicing and concatenation are     *)
(* computed, not assumed.                                                    *)

_singlelineSeparator ==
    <<";"," ">>

_multilinePrefix ==
    <<"t","h","e"," ","f","o","l","l","o","w","i","n","g"," ","e","r","r",
      "o","r","s"," ","o","c","c","u","r","r","e","d",":">>

_multilineSeparator ==
    <<"\n"," ","-"," "," ">>

_multilineIndent ==
    <<" "," "," "," ">>

\* An io.Writer: buf is what it has accepted, n the number of Write calls it
\* has received.  With failAt = k > 0 the k-th call and every later one
\* return an error and accept nothing; failAt = 0 never fails (bytes.Buffer,
\* the fmt.State of fmt.Sprintf).
Sink(k) == [buf |-> <<>>, n |-> 0, failAt |-> k]

\* w.Write(p) and io.WriteString(w, p): the writer after the call, and
\* whether the call returned an error
Write(w, p) ==
    IF w.failAt # 0 /\ w.n + 1 >= w.failAt
    THEN [w |-> [w EXCEPT !.n = @ + 1], err |-> TRUE]
    ELSE [w |-> [w EXCEPT !.n = @ + 1, !.buf = @ \o p], err |-> FALSE]

\* strings.IndexByte(s, c): the 0-based index of the first c in s, or -1
IndexByte(s, c) ==
    IF \E k \in 1..Len(s) : s[k] = c
    THEN (CHOOSE k \in 1..Len(s) : s[k] = c /\ \A j \in 1..(k - 1) : s[j] # c) - 1
    ELSE -1

\* s[i:j] of a Go string
Substr(s, i, j) == SubSeq(s, i + 1, j)

\* A plain error's texts: texts[id].v is what Error() and %v give,
\* texts[id].plus what %+v gives.  errors.New(msg) gives msg for all three.
ErrorsNew(msg) == [v |-> msg, plus |-> msg]

\* richFormatError of the tests: Error() is fmt.Sprint(r), and its Format
\* writes one text for %+v and another for everything else
richFormatError ==
    [v |->
    <<"w","i","t","h","o","u","t"," ","p","l","u","s">>,
     plus |->
    <<"m","u","l","t","i","l","i","n","e","\n","m","e","s","s","a","g",
      "e","\n","w","i","t","h"," ","p","l","u","s">>]

RECURSIVE writeSinglelineFrom(_, _, _, _, _)
RECURSIVE writePrefixLineLoop(_, _, _, _)
RECURSIVE writeMultilineFrom(_, _, _, _, _)

\* writeSingleline's loop from item i on; "first" is true exactly at i = 0.
\* item.Error() of a plain item is its text, of a multiError item the
\* method below (a fresh buffer, writeSingleline into it).
writeSinglelineFrom(texts, m, me, i, w) ==
    IF i >= me.len THEN w
    ELSE LET item == At(m, me, i)
             w1   == IF i = 0 THEN w ELSE Write(w, _singlelineSeparator).w
             s    == IF item.kind = "plain" THEN texts[item.id].v
                     ELSE writeSinglelineFrom(texts, m, AsSlice(item), 0, Sink(0)).buf
         IN writeSinglelineFrom(texts, m, me, i + 1, Write(w1, s).w)

writeSingleline(texts, m, me, w) == writeSinglelineFrom(texts, m, me, 0, w)

\* buff.Reset(); me.writeSingleline(buff); buff.String()
Error(texts, m, me) == writeSingleline(texts, m, me, Sink(0)).buf

String(texts, m, me) == Error(texts, m, me)

\* item.Error() of any error
ErrorOf(texts, m, item) ==
    IF item.kind = "plain" THEN texts[item.id].v
    ELSE Error(texts, m, AsSlice(item))

writePrefixLineLoop(w, prefix, s, first) ==
    IF Len(s) = 0 THEN w
    ELSE LET w1  == IF first THEN w ELSE Write(w, prefix).w
             i   == IndexByte(s, "\n")
             idx == IF i < 0 THEN Len(s) - 1 ELSE i
         IN writePrefixLineLoop(Write(w1, Substr(s, 0, idx + 1)).w, prefix,
                                Substr(s, idx + 1, Len(s)), FALSE)

writePrefixLine(w, prefix, s) == writePrefixLineLoop(w, prefix, s, TRUE)

writeMultilineFrom(texts, m, me, i, w) ==
    IF i >= me.len THEN w
    ELSE LET w1 == Write(w, _multilineSeparator).w
         IN writeMultilineFrom(texts, m, me, i + 1,
                writePrefixLine(w1, _multilineIndent,
                                ErrorOf(texts, m, At(m, me, i))))

writeMultiline(texts, m, me, w) ==
    writeMultilineFrom(texts, m, me, 0, Write(w, _multilinePrefix).w)

\* Format(f, c) with f.Flag('+') = plus
Format(texts, m, me, f, c, plus) ==
    IF c = "v" /\ plus THEN writeMultiline(texts, m, me, f)
    ELSE writeSingleline(texts, m, me, f)

\* fmt.Sprintf("%v", err) and fmt.Sprintf("%+v", err): an error with a
\* Format method is formatted by it, into a writer that never fails
Sprintf(texts, m, plus, err) ==
    IF err.kind = "plain"
    THEN IF plus THEN texts[err.id].plus ELSE texts[err.id].v
    ELSE Format(texts, m, AsSlice(err), Sink(0), "v", plus).buf

----------------------------------------------------------------------------
(* Rendering in the earlier variants.  Before multiError had a Format      *)
(* method, fmt gave Error() for %v and for %+v alike.                       *)

_prefix ==
    <<"t","h","e"," ","f","o","l","l","o","w","i","n","g"," ","e","r","r",
      "o","r","s"," ","o","c","c","u","r","r","e","d",":">>

DefaultPrefix ==
    <<"T","h","e"," ","f","o","l","l","o","w","i","n","g"," ","e","r","r",
      "o","r","s"," ","o","c","c","u","r","r","e","d",":">>

\* strings.Repeat(c, n)
Repeat(c, n) == [i \in 1..n |-> c]

RECURSIVE Split(_, _)
RECURSIVE Join(_, _)
RECURSIVE writeWithPrefixLoop(_, _, _, _)
RECURSIVE multiError_ErrorFrom(_, _, _, _, _)
RECURSIVE multiErrorPtr_ErrorFrom(_, _, _, _, _)

\* strings.Split(s, c) for a separator of one byte
Split(s, c) ==
    LET i == IndexByte(s, c) IN
    IF i < 0 THEN <<s>>
    ELSE <<Substr(s, 0, i)>> \o Split(Substr(s, i + 1, Len(s)), c)

\* strings.Join(a, sep)
Join(a, sep) ==
    IF Len(a) = 0 THEN <<>>
    ELSE IF Len(a) = 1 THEN a[1]
    ELSE a[1] \o sep \o Join(Tail(a), sep)

\* writeWithPrefix: as writePrefixLine, but it stops at the first Write that
\* fails and returns its error
writeWithPrefixLoop(w, prefix, s, first) ==
    IF Len(s) = 0 THEN [w |-> w, err |-> FALSE]
    ELSE LET r1  == IF first THEN [w |-> w, err |-> FALSE] ELSE Write(w, prefix)
             i   == IndexByte(s, "\n")
             idx == IF i < 0 THEN Len(s) - 1 ELSE i
             r2  == Write(r1.w, Substr(s, 0, idx + 1))
         IN IF r1.err THEN r1
            ELSE IF r2.err THEN r2
            ELSE writeWithPrefixLoop(r2.w, prefix, Substr(s, idx + 1, Len(s)), FALSE)

writeWithPrefix(w, prefix, s) == writeWithPrefixLoop(w, prefix, s, TRUE)

\* Error() of the multiError []error that has no Format method: the prefix,
\* then each item after "\n -  ", its later lines indented
multiError_ErrorFrom(texts, m, me, i, buff) ==
    IF i >= me.len THEN buff.buf
    ELSE LET item == At(m, me, i)
             s    == IF item.kind = "plain" THEN texts[item.id].v
                     ELSE multiError_ErrorFrom(texts, m, AsSlice(item), 0,
                                               Write(Sink(0), _prefix).w)
             b1   == Write(buff, <<"\n", " ", "-", " ", " ">>).w
         IN multiError_ErrorFrom(texts, m, me, i + 1,
                                 writeWithPrefix(b1, Repeat(" ", 4), s).w)

multiError_Error(texts, m, me) ==
    multiError_ErrorFrom(texts, m, me, 0, Write(Sink(0), _prefix).w)

\* indentTail(spaces, s)
indentTail(spaces, s) ==
    LET prefix == Repeat(" ", spaces)
        lines  == Split(s, "\n")
    IN Join([i \in 1..Len(lines) |->
                IF i = 1 THEN lines[i] ELSE prefix \o lines[i]], <<"\n">>)

\* Error() of the multiError struct {Prefix, Errors}; Errors is the slice me
multiErrorPtr_ErrorFrom(texts, m, me, i, msg) ==
    IF i >= me.len THEN msg
    ELSE LET item == At(m, me, i)
             s    == IF item.kind = "plain" THEN texts[item.id].v
                     ELSE multiErrorPtr_ErrorFrom(texts, m, AsSlice(item), 0,
                                                  DefaultPrefix)
         IN multiErrorPtr_ErrorFrom(texts, m, me, i + 1,
                msg \o <<"\n", " ", "-", " ", " ">> \o indentTail(4, s))

multiErrorPtr_Error(texts, m, Prefix, me) ==
    multiErrorPtr_ErrorFrom(texts, m, me, 0,
                            IF Prefix = <<>> THEN DefaultPrefix ELSE Prefix)

----------------------------------------------------------------------------
(* Rendering into a writer that fails.  The writers of the variant with     *)
(* Causes() return the first error of a Write and stop there; its Format    *)
(* has no result to return it in.                                           *)

_newline == <<"\n">>

_listDash == <<" ", "-", " ", " ">>

_listIndent == <<" ", " ", " ", " ">>

RECURSIVE writeSingleline_part000From(_, _, _, _, _)
RECURSIVE writeMultiline_part000From(_, _, _, _, _)

writeSingleline_part000From(texts, m, me, i, w) ==
    IF i >= me.len THEN [w |-> w, err |-> FALSE]
    ELSE LET r1 == IF i = 0 THEN [w |-> w, err |-> FALSE]
                   ELSE Write(w, _singlelineSeparator)
             r2 == Write(r1.w, ErrorOf(texts, m, At(m, me, i)))
         IN IF r1.err THEN r1
            ELSE IF r2.err THEN r2
            ELSE writeSingleline_part000From(texts, m, me, i + 1, r2.w)

writeSingleline_part000(texts, m, me, w) ==
    writeSingleline_part000From(texts, m, me, 0, w)

writeMultiline_part000From(texts, m, me, i, w) ==
    IF i >= me.len THEN [w |-> w, err |-> FALSE]
    ELSE LET r1 == Write(w, _newline)
             r2 == Write(r1.w, _listDash)
             r3 == writeWithPrefix(r2.w, _listIndent,
                                   ErrorOf(texts, m, At(m, me, i)))
         IN IF r1.err THEN r1
            ELSE IF r2.err THEN r2
            ELSE IF r3.err THEN r3
            ELSE writeMultiline_part000From(texts, m, me, i + 1, r3.w)

writeMultiline_part000(texts, m, me, w) ==
    LET r == Write(w, _prefix)
    IN IF r.err THEN r ELSE writeMultiline_part000From(texts, m, me, 0, r.w)

\* Format calls the writer and drops what it returns
Format_part000(texts, m, me, f, c, plus) ==
    IF c = "v" /\ plus THEN writeMultiline_part000(texts, m, me, f).w
    ELSE writeSingleline_part000(texts, m, me, f).w

----------------------------------------------------------------------------
(* SpecRender: a caller combines errors.New and richFormatError values and  *)
(* renders the result every way there is: Error(), String(), %v and %+v of  *)
(* error.go, and Error() of the two earlier multiErrors; or it formats the  *)
(* result into a writer that fails                                          *)

Alphabet == {"a", "\n"}

Msgs == UNION {[1..k -> Alphabet] : k \in 0..MaxMsgLen}

Texts == {ErrorsNew(s) : s \in Msgs} \cup {richFormatError}

Rendered(how) == how \in reg.done

\* the constituents of the rendered composite
Items == Elems(mem, AsSlice(reg.err))

InitRender ==
    \E n \in 2..MaxItems : \E texts \in [1..n -> Texts] :
        LET xs  == [i \in 1..n |-> Plain(i)]
            lit == Literal(<<>>, xs)
            c   == Combine(lit.mem, lit.ret)
        IN /\ mem = c.mem
           /\ pc = "render"
           /\ errors = lit.ret
           /\ given = [elems |-> xs, flat |-> xs, deep |-> xs]
           /\ reg = [err |-> c.ret, texts |-> texts, done |-> {},
                     out |-> [how \in {} |-> <<>>]]
           /\ thr = NoThreads

Render(from, how, text) ==
    /\ pc = from
    /\ pc' = how
    /\ reg' = [reg EXCEPT !.done = @ \cup {how},
                          !.out = [h \in DOMAIN @ \cup {how} |->
                                      IF h = how THEN text ELSE @[h]]]
    /\ UNCHANGED <<mem, errors, given, thr>>

CallError ==
    Render("render", "Error", Error(reg.texts, mem, AsSlice(reg.err)))

CallString ==
    Render("Error", "String", String(reg.texts, mem, AsSlice(reg.err)))

SprintfV ==
    Render("String", "%v", Sprintf(reg.texts, mem, FALSE, reg.err))

SprintfPlusV ==
    Render("%v", "%+v", Sprintf(reg.texts, mem, TRUE, reg.err))

CallMultiError_Error ==
    Render("%+v", "multiError.Error",
           multiError_Error(reg.texts, mem, AsSlice(reg.err)))

CallMultiErrorPtr_Error ==
    Render("multiError.Error", "(*multiError).Error",
           multiErrorPtr_Error(reg.texts, mem, <<>>, AsSlice(reg.err)))

\* Format(f, 'v') of error.go on an f whose k-th Write fails.  Format has
\* no result: its caller is told nothing.
FormatIntoFailing ==
    \E k \in 1..MaxFailAt : \E plus \in BOOLEAN :
        Render("render", "Format",
               [w    |-> Format(reg.texts, mem, AsSlice(reg.err), Sink(k), "v", plus),
                told |-> FALSE])

FormatIntoFailing_part000 ==
    \E k \in 1..MaxFailAt : \E plus \in BOOLEAN :
        Render("render", "Format_part000",
               [w    |-> Format_part000(reg.texts, mem, AsSlice(reg.err),
                                        Sink(k), "v", plus),
                told |-> FALSE])

NextRender ==
    \/ CallError
    \/ CallString
    \/ SprintfV
    \/ SprintfPlusV
    \/ CallMultiError_Error
    \/ CallMultiErrorPtr_Error
    \/ FormatIntoFailing
    \/ FormatIntoFailing_part000

SpecRender == InitRender /\ [][NextRender]_vars

\* the constituents' Error() texts joined by "; "
Compact == Join([i \in 1..Len(Items) |-> reg.texts[Items[i].id].v],
                _singlelineSeparator)

\* C11: the compact rendering of a composite is its constituents' messages
\* joined in order by "; ", and Error(), String() and %v all give it, of
\* every multiError there is
C11_CompactRendering ==
    \A how \in {"Error", "String", "%v", "multiError.Error"} :
        Rendered(how) => reg.out[how] = Compact

\* The same of error.go alone: its Error(), String() and %v are the compact
\* rendering
CompactRenderingOfErrorGo ==
    \A how \in {"Error", "String", "%v"} :
        Rendered(how) => reg.out[how] = Compact

\* The header and the marker of the detailed form, as the tests spell them
Header ==
    <<"t","h","e"," ","f","o","l","l","o","w","i","n","g"," ","e","r","r",
      "o","r","s"," ","o","c","c","u","r","r","e","d",":">>

Marker == <<" ", "-", " ", " ">>

RECURSIVE Listed(_)
\* every message of a list after a newline and the marker
Listed(msgs) ==
    IF Len(msgs) = 0 THEN <<>>
    ELSE <<"\n">> \o Marker \o msgs[1] \o Listed(Tail(msgs))

\* every constituent is an errors.New whose message is one line
OneLiners ==
    \A i \in 1..Len(Items) :
        /\ reg.texts[Items[i].id].plus = reg.texts[Items[i].id].v
        /\ IndexByte(reg.texts[Items[i].id].v, "\n") < 0

ErrorTexts == [i \in 1..Len(Items) |-> reg.texts[Items[i].id].v]

\* C12: the detailed rendering of a composite is the header "the following
\* errors occurred:" and then, for each constituent in order, a newline, the
\* marker " -  " and the constituent's message, with nothing after the last.
\* Of the multiError without a Format method the detailed rendering is
\* Error().
C12_DetailedRendering ==
    \A how \in {"%+v", "(*multiError).Error"} :
        Rendered(how) /\ OneLiners
            => reg.out[how] = Header \o Listed(ErrorTexts)

\* The same of error.go alone
DetailedRenderingOfErrorGo ==
    Rendered("%+v") /\ OneLiners
        => reg.out["%+v"] = Header \o Listed(ErrorTexts)

----------------------------------------------------------------------------
(* SpecIndent: one message is indented by writePrefixLine (error.go) and by *)
(* indentTail (the earliest variant)                                        *)

InitIndent ==
    \E s \in UNION {[1..k -> Alphabet] : k \in 0..MaxTextLen} :
        /\ mem = <<>>
        /\ pc = "render"
        /\ errors = Slice(0, 0, 0)
        /\ given = [elems |-> <<>>, flat |-> <<>>, deep |-> <<>>]
        /\ reg = [s |-> s, done |-> {}, out |-> [how \in {} |-> <<>>]]
        /\ thr = NoThreads

CallWritePrefixLine ==
    Render("render", "writePrefixLine",
           writePrefixLine(Sink(0), _multilineIndent, reg.s).buf)

CallIndentTail ==
    Render("render", "indentTail", indentTail(4, reg.s))

NextIndent ==
    \/ CallWritePrefixLine
    \/ CallIndentTail

SpecIndent == InitIndent /\ [][NextIndent]_vars

RECURSIVE AfterEveryNewline(_)
\* s with four spaces put after each of its newlines: the lines of s, every
\* one but the first behind four spaces, the newlines where they were
AfterEveryNewline(s) ==
    IF Len(s) = 0 THEN <<>>
    ELSE IF Head(s) = "\n"
         THEN <<"\n", " ", " ", " ", " ">> \o AfterEveryNewline(Tail(s))
         ELSE <<Head(s)>> \o AfterEveryNewline(Tail(s))

EndsWithNewline(s) == Len(s) > 0 /\ s[Len(s)] = "\n"

\* C13: a message is split on "\n", its first line is written as it is and
\* every later line behind four spaces, the newlines kept; the empty lines
\* of a message, and the empty last line of a message that ends with a
\* newline, are lines like any other
C13_EveryLaterLineIndented ==
    \A how \in {"writePrefixLine", "indentTail"} :
        Rendered(how) => reg.out[how] = AfterEveryNewline(reg.s)

\* indentTail does so for every message
IndentTailIndentsEveryLine ==
    Rendered("indentTail") => reg.out["indentTail"] = AfterEveryNewline(reg.s)

\* writePrefixLine does so for every message that does not end with a
\* newline, and leaves out the four spaces of an empty last line
WritePrefixLineSkipsEmptyLastLine ==
    Rendered("writePrefixLine") =>
        reg.out["writePrefixLine"] =
            IF EndsWithNewline(reg.s)
            THEN SubSeq(AfterEveryNewline(reg.s), 1,
                        Len(AfterEveryNewline(reg.s)) - 4)
            ELSE AfterEveryNewline(reg.s)

----------------------------------------------------------------------------
(* SpecRender again: constituents that have a detailed form of their own   *)

\* no constituent's Error() or %+v text ends with a newline
NoOpenLastLine ==
    \A i \in 1..Len(Items) :
        /\ ~EndsWithNewline(reg.texts[Items[i].id].v)
        /\ ~EndsWithNewline(reg.texts[Items[i].id].plus)

\* C14: the detailed rendering of a composite shows each constituent in the
\* constituent's own %+v form, its later lines indented, and the compact
\* rendering shows each in its Error() form
C14_DetailedShowsDetailedConstituents ==
    /\ Rendered("%+v") /\ NoOpenLastLine
          => reg.out["%+v"] =
                Header \o Listed([i \in 1..Len(Items) |->
                             AfterEveryNewline(reg.texts[Items[i].id].plus)])
    /\ Rendered("%v") => reg.out["%v"] = Compact

\* What error.go shows in the detailed rendering is each constituent's
\* Error() text
DetailedShowsErrorTexts ==
    Rendered("%+v") /\ NoOpenLastLine
        => reg.out["%+v"] =
              Header \o Listed([i \in 1..Len(Items) |->
                           AfterEveryNewline(reg.texts[Items[i].id].v)])

----------------------------------------------------------------------------
(* SpecRender again: the writer fails *)

\* a Write of the rendering has failed
WriteFailed(how) == Rendered(how) /\ reg.out[how].w.n >= reg.out[how].w.failAt

\* C15: when a Write fails while a composite is rendered, the caller is
\* told so, and nothing more is written after the Write that failed
C15_WriteFailurePropagates ==
    \A how \in {"Format", "Format_part000"} :
        WriteFailed(how) =>
            /\ reg.out[how].told
            /\ reg.out[how].w.n = reg.out[how].w.failAt

\* The writers that return errors stop at the Write that failed
WritersOfPart000Stop ==
    WriteFailed("Format_part000") =>
        reg.out["Format_part000"].w.n = reg.out["Format_part000"].w.failAt

\* error.go writes everything it has to write, failed or not: as many
\* Writes as into a writer that never fails
ErrorGoWritesOn ==
    WriteFailed("Format") =>
        reg.out["Format"].w.n \in
            {Format(reg.texts, mem, AsSlice(reg.err), Sink(0), "v", plus).n :
                plus \in BOOLEAN}

----------------------------------------------------------------------------
(* Introspection: the constituents of an error (Causes() of the variant     *)
(* with errorGroup, Errors of the tests) and Every                          *)

\* errors.Join(xs...): nil when every x is nil, else an error whose
\* Unwrap() []error is a new slice of the non-nil xs, none of them opened
errorsJoin(m, xs) ==
    IF StripNil(xs) = <<>> THEN [mem |-> m, ret |-> Nil]
    ELSE LET a == Literal(m, StripNil(xs))
         IN [mem |-> a.mem, ret |-> [a.ret EXCEPT !.kind = "join"]]

\* whether err has Unwrap() []error: a composite of this package and what
\* errors.Join returns have it; an error that is an errorGroup only by a
\* method of its own (notMultiErr of the tests) has not
HasUnwrap(err) == err.kind \in {"multi", "join"}

\* Errors(err) listing any error that has Causes()
Errors_OpensGroups(m, err) ==
    IF err.kind = "nil" THEN [mem |-> m, ret |-> Slice(0, 0, 0)]
    ELSE IF HasUnwrap(err) \/ IsErrorGroup(err)
         THEN Literal(m, Elems(m, Causes(err)))
    ELSE Literal(m, <<err>>)

\* Errors(err): a nil slice for nil, a copy of the list of an error with
\* Unwrap() []error, and a slice of err alone for any other error
Errors(m, err) ==
    IF err.kind = "nil" THEN [mem |-> m, ret |-> Slice(0, 0, 0)]
    ELSE IF HasUnwrap(err) THEN Literal(m, Elems(m, Causes(err)))
    ELSE Literal(m, <<err>>)

RECURSIVE errorsIs(_, _, _)
\* errors.Is(err, target): err is target (a multiError is a slice and equal
\* to nothing), or err has Unwrap() []error and errors.Is holds of one of
\* the errors it returns
errorsIs(m, err, target) ==
    IF err.kind = "nil" \/ target.kind = "nil" THEN err = target
    ELSE \/ target.kind \in {"plain", "group"} /\ err = target
         \/ /\ HasUnwrap(err)
            /\ \E i \in 0..(err.len - 1) : errorsIs(m, At(m, AsSlice(err), i), target)

\* Every(err, target) satisfied by one match
Every_Any(m, err, target) ==
    IF HasUnwrap(err)
    THEN \E i \in 0..(err.len - 1) : errorsIs(m, At(m, AsSlice(err), i), target)
    ELSE errorsIs(m, err, target)

\* Every(err, target): errors.Is(e, target) of every constituent e of a
\* composite, and of err itself when it is none
Every(m, err, target) ==
    IF HasUnwrap(err)
    THEN \A i \in 0..(err.len - 1) : errorsIs(m, At(m, AsSlice(err), i), target)
    ELSE errorsIs(m, err, target)

----------------------------------------------------------------------------
(* SpecErrors: a caller makes an error with Combine, Append or errors.Join, *)
(* asks for its constituents, overwrites the slice it was given and asks    *)
(* again; or it asks Every of the error and a target                        *)

InitErrors ==
    \E n \in 0..MaxLen : \E xs \in ArgLists(n) :
    \E how \in {"Combine", "Append", "errors.Join"} :
        /\ how = "Append" => n = 2
        /\ how = "errors.Join" => \A i \in 1..n : xs[i].kind \in {"nil", "plain"}
        /\ LET r == IF how = "Combine" THEN CombineOf(Heap0, xs)
                    ELSE IF how = "Append" THEN multierrAppend(Heap0, xs[1], xs[2])
                    ELSE errorsJoin(Heap0, xs)
           IN /\ mem = r.mem
              /\ reg = [e |-> r.ret, how |-> how, via |-> "none",
                        got |-> Slice(0, 0, 0), first |-> <<>>,
                        view |-> View(r.mem, r.ret),
                        target |-> Nil, every |-> FALSE, is |-> FALSE]
        /\ errors = Slice(0, 0, 0)
        /\ given = [elems |-> xs, flat |-> Flat(Heap0, xs),
                    deep |-> DeepFlat(Heap0, xs)]
        /\ pc = "have"
        /\ thr = NoThreads

\* got := Errors(e), the first time or after the overwriting
CallErrors ==
    /\ pc \in {"have", "overwritten"}
    /\ pc = "overwritten" => reg.via = "Errors"
    /\ LET r == Errors(mem, reg.e) IN
        /\ mem' = r.mem
        /\ reg' = [reg EXCEPT !.via = "Errors", !.got = r.ret,
                              !.first = IF pc = "have" THEN Elems(r.mem, r.ret)
                                        ELSE @]
    /\ pc' = IF pc = "have" THEN "got" ELSE "again"
    /\ UNCHANGED <<errors, given, thr>>

\* got := e.(errorGroup).Causes() of a composite
CallCauses ==
    /\ pc \in {"have", "overwritten"}
    /\ pc = "overwritten" => reg.via = "Causes"
    /\ reg.e.kind = "multi"
    /\ reg' = [reg EXCEPT !.via = "Causes", !.got = Causes(reg.e),
                          !.first = IF pc = "have" THEN Elems(mem, Causes(reg.e))
                                    ELSE @]
    /\ pc' = IF pc = "have" THEN "got" ELSE "again"
    /\ UNCHANGED <<mem, errors, given, thr>>

\* got[i] = v
Overwrite ==
    /\ pc = "got"
    /\ \E i \in 0..(reg.got.len - 1) : \E v \in {Nil} \cup Plains :
        mem' = [mem EXCEPT ![reg.got.arr][i + 1] = v]
    /\ pc' = "overwritten"
    /\ UNCHANGED <<errors, given, reg, thr>>

Targets == Plains \cup {M1, M3}

CallEvery ==
    /\ pc = "have"
    /\ \E target \in Targets :
        reg' = [reg EXCEPT !.target = target,
                           !.every = Every(mem, reg.e, target),
                           !.is = errorsIs(mem, reg.e, target)]
    /\ pc' = "Every"
    /\ UNCHANGED <<mem, errors, given, thr>>

NextErrors ==
    \/ CallErrors
    \/ CallCauses
    \/ Overwrite
    \/ CallEvery

SpecErrors == InitErrors /\ [][NextErrors]_vars

\* C16: Errors(e) is empty when e is nil, e alone when e is a plain error,
\* and, of a composite that Combine or Append built, the constituents in
\* order: the arguments without their nils and with every composite among
\* them replaced by its constituents.  Causes() of such a composite is the
\* same list.
C16_ErrorsListsConstituents ==
    (pc = "got" /\ reg.how \in {"Combine", "Append"}) =>
        /\ Elems(mem, reg.got) = given.flat
        /\ reg.e.kind = "nil" => reg.got.len = 0
        /\ reg.e.kind = "plain" => Elems(mem, reg.got) = <<reg.e>>
        /\ reg.e.kind = "multi" => Elems(mem, reg.got) = Constituents(mem, reg.e)

C16_Witness ==
    /\ pc = "got"
    /\ reg.via = "Errors"
    /\ reg.how = "Combine"
    /\ Len(given.elems) = 3
    /\ given.elems[1].kind = "plain"
    /\ given.elems[2].kind = "multi"
    /\ given.elems[3].kind = "plain"
    /\ reg.got.len = 4

JoinedErrorsListed ==
    /\ pc = "got"
    /\ reg.via = "Errors"
    /\ reg.how = "errors.Join"
    /\ reg.e.kind = "join"
    /\ Elems(mem, reg.got) = <<Plain(1), Plain(2)>>

\* C18: the slice a caller gets of a composite's constituents is its own:
\* whatever it writes there, the composite has its constituents as before,
\* in order (so it renders as before), and asking again gives them again
C18_ReturnedSliceIsIndependent ==
    (pc \in {"overwritten", "again"} /\ reg.e.kind = "multi") =>
        /\ View(mem, reg.e) = reg.view
        /\ pc = "again" => Elems(mem, reg.got) = reg.first

\* So it is of the slice Errors returns, a copy
SliceOfErrorsIsIndependent ==
    (pc \in {"overwritten", "again"} /\ reg.via = "Errors") =>
        /\ View(mem, reg.e) = reg.view
        /\ pc = "again" => Elems(mem, reg.got) = reg.first

\* C19: Every(e, target) holds exactly when e is a composite (or what
\* errors.Join returns) and each of its constituents is target, or e is no
\* composite and is target itself; one constituent that is not target makes
\* it false though errors.Is, for which one match is enough, holds; and it
\* is false of a target that is itself a composite
C19_EveryIsUnanimous ==
    pc = "Every" =>
        /\ reg.target.kind = "multi" => ~reg.every
        /\ (reg.target.kind = "plain" /\ HasUnwrap(reg.e)) =>
              /\ reg.every = (\A i \in 0..(reg.e.len - 1) :
                                 At(mem, AsSlice(reg.e), i) = reg.target)
              /\ reg.is = (\E i \in 0..(reg.e.len - 1) :
                              At(mem, AsSlice(reg.e), i) = reg.target)
        /\ (reg.target.kind = "plain" /\ ~HasUnwrap(reg.e)) =>
              reg.every = (reg.e = reg.target)

\* Every(Combine(x, y), x) is false and errors.Is of the same is true
C19_Witness ==
    /\ pc = "Every"
    /\ reg.how = "Combine"
    /\ given.elems = <<Plain(1), Plain(2)>>
    /\ reg.target = Plain(1)
    /\ ~reg.every
    /\ reg.is

\* states the caller reaches: Every(Combine(x, x, x), x) is true, and so is
\* Every(errors.Join(x, x), x)
EveryOfAllTheSame ==
    /\ pc = "Every"
    /\ reg.e.kind \in {"multi", "join"}
    /\ given.elems \in {<<Plain(1), Plain(1), Plain(1)>>, <<Plain(1), Plain(1)>>}
    /\ reg.target = Plain(1)
    /\ reg.every

----------------------------------------------------------------------------
(* AppendInto: Append into the error variable a pointer points at.  What a  *)
(* call gives is a record: whether it panicked, the heap, the variable's    *)
(* value afterwards and the boolean returned.                               *)

\* AppendInto looking at err before it looks at into: a nil err returns
\* false whatever into is, and only the assignment through a nil into panics
AppendInto_ErrFirst(m, into, old, err) ==
    IF err.kind = "nil"
    THEN [panic |-> FALSE, mem |-> m, val |-> old, ret |-> FALSE]
    ELSE IF into = "nil"
    THEN [panic |-> TRUE, mem |-> m, val |-> old, ret |-> FALSE]
    ELSE LET r == multierrAppend(m, old, err)
         IN [panic |-> FALSE, mem |-> r.mem, val |-> r.ret, ret |-> TRUE]

\* AppendInto returning true also when err is nil
AppendInto_ReturnsTrue(m, into, old, err) ==
    IF into = "nil"
    THEN [panic |-> TRUE, mem |-> m, val |-> old, ret |-> FALSE]
    ELSE LET r == multierrAppend(m, old, err)
         IN [panic |-> FALSE, mem |-> r.mem, val |-> r.ret, ret |-> TRUE]

\* AppendInto(into, err), old being *into when into is not nil
AppendInto(m, into, old, err) ==
    IF into = "nil"
    THEN [panic |-> TRUE, mem |-> m, val |-> old, ret |-> FALSE]
    ELSE IF err.kind = "nil"
    THEN [panic |-> FALSE, mem |-> m, val |-> old, ret |-> FALSE]
    ELSE LET r == multierrAppend(m, old, err)
         IN [panic |-> FALSE, mem |-> r.mem, val |-> r.ret, ret |-> TRUE]

\* An Invoker is a record: what made it (the conversion Invoke(fn) or
\* Close(closer)), the error its function or its closer returns, and how
\* often it has been invoked.
Close(closer) == [kind |-> "Close", gives |-> closer, calls |-> 0]

\* invoker.Invoke(): fn() of an Invoke, closer.Close() of a Close
Invoke(invoker) ==
    [ret |-> invoker.gives, invoker |-> [invoker EXCEPT !.calls = @ + 1]]

\* AppendInvoke that does not look at what Invoke returns
AppendInvoke_DropsResult(m, into, old, invoker) ==
    LET i == Invoke(invoker)
        r == AppendInto(m, into, old, Nil)
    IN [panic |-> r.panic, mem |-> r.mem, val |-> r.val, invoker |-> i.invoker]

\* AppendInvoke(into, invoker): AppendInto(into, invoker.Invoke())
AppendInvoke(m, into, old, invoker) ==
    LET i == Invoke(invoker)
        r == AppendInto(m, into, old, i.ret)
    IN [panic |-> r.panic, mem |-> r.mem, val |-> r.val, invoker |-> i.invoker]

\* AppendFunc(into, fn): AppendInvoke(into, Invoke(fn))
AppendFunc(m, into, old, fn) ==
    AppendInvoke(m, into, old, [kind |-> "Invoke", gives |-> fn, calls |-> 0])

----------------------------------------------------------------------------
(* SpecInto: a caller has an error variable and calls AppendInto once, with *)
(* a pointer to the variable or with a nil pointer; or AppendInvoke with an *)
(* Invoker; or it returns the variable's value from a function that has    *)
(* deferred AppendFunc                                                      *)

InitInto ==
    \E acc \in Args :
        /\ mem = Heap0
        /\ reg = [acc |-> acc, old |-> acc, into |-> "none", err |-> Nil,
                  ret |-> FALSE,
                  invoker |-> [kind |-> "none", gives |-> Nil, calls |-> 0]]
        /\ errors = Slice(0, 0, 0)
        /\ given = [elems |-> <<acc>>, flat |-> Flat(Heap0, <<acc>>),
                    deep |-> DeepFlat(Heap0, <<acc>>)]
        /\ pc = "start"
        /\ thr = NoThreads

CallAppendInto ==
    /\ pc = "start"
    /\ \E into \in {"nil", "&acc"} : \E err \in Args :
        LET r == AppendInto(mem, into, reg.acc, err) IN
        /\ mem' = r.mem
        /\ reg' = [reg EXCEPT !.acc = r.val, !.into = into, !.err = err,
                              !.ret = r.ret]
        /\ pc' = IF r.panic THEN "panicked" ELSE "returned"
    /\ UNCHANGED <<errors, given, thr>>

\* AppendInvoke(&acc, invoker), the invoker an Invoke(fn) or a
\* Close(closer) whose fn or closer returns gives
CallAppendInvoke ==
    /\ pc = "start"
    /\ \E gives \in Args :
       \E invoker \in {[kind |-> "Invoke", gives |-> gives, calls |-> 0],
                       Close(gives)} :
        LET r == AppendInvoke(mem, "&acc", reg.acc, invoker) IN
        /\ mem' = r.mem
        /\ reg' = [reg EXCEPT !.acc = r.val, !.into = "&acc", !.err = gives,
                              !.invoker = r.invoker]
        /\ pc' = IF r.panic THEN "panicked" ELSE "invoked"
    /\ UNCHANGED <<errors, given, thr>>

\* func() (err error) { defer AppendFunc(&err, fn); return acc }(): the
\* result is set to acc, then the deferred call runs on it
CallAppendFunc ==
    /\ pc = "start"
    /\ \E gives \in Args :
        LET r == AppendFunc(mem, "&acc", reg.acc, gives) IN
        /\ mem' = r.mem
        /\ reg' = [reg EXCEPT !.acc = r.val, !.into = "&acc", !.err = gives,
                              !.invoker = r.invoker]
        /\ pc' = IF r.panic THEN "panicked" ELSE "deferred"
    /\ UNCHANGED <<errors, given, thr>>

NextInto ==
    \/ CallAppendInto
    \/ CallAppendInvoke
    \/ CallAppendFunc

SpecInto == InitInto /\ [][NextInto]_vars

\* C20: AppendInto with a nil pointer panics, whatever the error it is
\* given, nil included; it never returns
C20_NilPointerPanics ==
    (pc # "start" /\ reg.into = "nil") => pc = "panicked"

C20_Witness ==
    /\ pc = "panicked"
    /\ reg.into = "nil"
    /\ reg.err = Plain(1)

\* C21: AppendInto through a pointer that is not nil returns true exactly
\* when err is not nil; with a nil err the variable keeps its value, nil or
\* not, and nothing is written; with any other err the variable becomes
\* Append(its old value, err): err itself after nil, else a composite of the
\* old value's constituents (or the old value) and then err's (or err)
C21_AppendIntoAppends ==
    pc = "returned" =>
        /\ reg.into = "&acc"
        /\ reg.ret = (reg.err.kind # "nil")
        /\ reg.err.kind = "nil" => (reg.acc = reg.old /\ mem = Heap0)
        /\ (reg.err.kind # "nil" /\ reg.old.kind = "nil") => reg.acc = reg.err
        /\ (reg.err.kind # "nil" /\ reg.old.kind # "nil") =>
              /\ reg.acc.kind = "multi"
              /\ Constituents(mem, reg.acc) = Flat(Heap0, <<reg.old, reg.err>>)

\* the test's "append into non-empty multierr"
C21_Witness ==
    /\ pc = "returned"
    /\ reg.old = M1
    /\ reg.err = Plain(1)
    /\ reg.ret
    /\ Constituents(mem, reg.acc) = <<Plain(1), Plain(2), Plain(1)>>

\* C22: AppendInvoke invokes its invoker once and leaves in the variable
\* Append(its old value, what the invoker returned); so with Close(closer):
\* the closer is closed once, a nil from it leaves the variable as it was,
\* any other error is the one merged; and a deferred AppendFunc leaves the
\* returned error first and the deferred function's error after it
C22_WrappersAppend ==
    pc \in {"invoked", "deferred"} =>
        /\ reg.invoker.calls = 1
        /\ reg.invoker.gives = reg.err
        /\ reg.err.kind = "nil" => (reg.acc = reg.old /\ mem = Heap0)
        /\ (reg.err.kind # "nil" /\ reg.old.kind = "nil") => reg.acc = reg.err
        /\ (reg.err.kind # "nil" /\ reg.old.kind # "nil") =>
              /\ reg.acc.kind = "multi"
              /\ Constituents(mem, reg.acc) = Flat(Heap0, <<reg.old, reg.err>>)

\* the test's deferred AppendFunc
C22_Witness ==
    /\ pc = "deferred"
    /\ reg.old = Plain(1)
    /\ reg.err = Plain(2)
    /\ reg.invoker.calls = 1
    /\ Constituents(mem, reg.acc) = <<Plain(1), Plain(2)>>

\* states the caller reaches: a Close that fails into an empty variable, and
\* a Close that does not fail
CloseFailedIntoEmpty ==
    /\ pc = "invoked"
    /\ reg.invoker.kind = "Close"
    /\ reg.old = Nil
    /\ reg.acc = Plain(1)

CloseDidNotFail ==
    /\ pc = "invoked"
    /\ reg.invoker.kind = "Close"
    /\ reg.err = Nil
    /\ reg.old = Nil
    /\ reg.acc = Nil

----------------------------------------------------------------------------
(* Spec again: the two variants on the same slice                           *)

\* error.go's fromSlice on the slice the caller built
fromSliceOfGiven ==
    LET a == Literal(Heap0, given.elems)
        r == fromSlice(a.mem, a.ret)
    IN [mem |-> r.mem, ret |-> r.ret, errors |-> a.ret]

\* C23: the variants of the compose algorithm are equivalent: on every slice
\* of nils, plain errors and composites, FromSlice/flatten of the earlier
\* variant returns what fromSlice/inspect of error.go returns (nil, the same
\* single error, or a composite of the same constituents in order) and leaves
\* the caller's slice holding what fromSlice/inspect leaves it holding.
C23_VariantsEquivalent ==
    pc = "fromsliced" =>
        /\ View(mem, reg.ret) = View(fromSliceOfGiven.mem, fromSliceOfGiven.ret)
        /\ Elems(mem, errors) =
               Elems(fromSliceOfGiven.mem, fromSliceOfGiven.errors)

\* the results alone agree on every slice that holds no foreign errorGroup
\* and no composite of a single error
VariantsReturnTheSame ==
    (pc = "fromsliced" /\ \A i \in 1..Len(given.elems) :
                              given.elems[i] \notin {G1, M3})
        => View(mem, reg.ret) =
               View(fromSliceOfGiven.mem, fromSliceOfGiven.ret)

\* a slice of nils and plain errors that the variants leave in different
\* states
VariantsLeaveInputDifferent ==
    /\ pc = "fromsliced"
    /\ given.elems = <<Nil, Plain(1)>>
    /\ reg.ret = Plain(1)
    /\ fromSliceOfGiven.ret = Plain(1)
    /\ Elems(mem, errors) = <<Plain(1), Plain(1)>>
    /\ Elems(fromSliceOfGiven.mem, fromSliceOfGiven.errors) = <<Nil, Plain(1)>>

----------------------------------------------------------------------------
(* SpecLoop: a caller starts from a nil error and appends the elements of a *)
(* list to it one by one, keeping only the latest result                    *)

InitLoop ==
    \E n \in 0..MaxAppends : \E xs \in ArgLists(n) :
        /\ mem = Heap0
        /\ errors = Slice(0, 0, 0)
        /\ given = [elems |-> xs, flat |-> Flat(Heap0, xs),
                    deep |-> DeepFlat(Heap0, xs)]
        /\ pc = "loop"
        /\ reg = [acc |-> Nil, i |-> 0, reused |-> FALSE]
        /\ thr = NoThreads

\* acc = Append(acc, xs[i]); reused records that the call stored its right
\* argument in the spare capacity of acc's own array
AppendNext ==
    /\ pc = "loop"
    /\ reg.i < Len(given.elems)
    /\ LET r == multierrAppend(mem, reg.acc, given.elems[reg.i + 1]) IN
        /\ mem' = r.mem
        /\ reg' = [acc |-> r.ret, i |-> reg.i + 1,
                   reused |-> /\ reg.acc.kind = "multi"
                              /\ r.ret.arr = reg.acc.arr
                              /\ r.ret.len = reg.acc.len + 1]
    /\ UNCHANGED <<pc, errors, given, thr>>

NextLoop == AppendNext

SpecLoop == InitLoop /\ [][NextLoop]_vars

\* the elements appended so far
Appended == SubSeq(given.elems, 1, reg.i)

\* C24: after every step of acc = Append(acc, x), starting from nil, acc is
\* nil if nothing non-nil has been appended, the one non-nil element itself
\* if there has been exactly one, and otherwise a multiError of the non-nil
\* elements appended so far, in order (an appended multiError counting as its
\* constituents), whichever array the call stored them in.
C24_AccumulatorHoldsAppended ==
    /\ StripNil(Appended) = <<>> => reg.acc = Nil
    /\ Len(StripNil(Appended)) = 1 => reg.acc = StripNil(Appended)[1]
    /\ Len(StripNil(Appended)) >= 2 =>
           /\ reg.acc.kind = "multi"
           /\ Constituents(mem, reg.acc) = Flat(Heap0, Appended)

\* the fourth plain error goes into the spare capacity left by the third
C24_Witness ==
    /\ reg.i = 4
    /\ given.elems = <<Plain(1), Plain(2), Plain(1), Plain(2)>>
    /\ reg.reused
    /\ Constituents(mem, reg.acc) = <<Plain(1), Plain(2), Plain(1), Plain(2)>>

----------------------------------------------------------------------------
(* SpecFlatten: a caller combines a slice that may hold an errorGroup whose *)
(* Causes() holds the errorGroup itself; FromSlice of the earlier variant   *)
(* runs one iteration of flattenTo at a time, on a stack of calls           *)

\* a foreign errorGroup that returns itself among its causes
Selfish == Group(2, Slice(5, 2, 2))

HeapSelf == Append(Heap0, <<Plain(1), Selfish>>)

InitFlatten ==
    \E n \in 1..MaxCallArgs : \E xs \in [1..n -> Args \cup {Selfish}] :
        LET a == Literal(HeapSelf, xs) IN
        /\ mem = a.mem
        /\ errors = a.ret
        /\ given = [elems |-> xs, flat |-> Flat(HeapSelf, xs), deep |-> <<>>]
        /\ pc = "start"
        /\ reg = [ret |-> Nil, dest |-> Slice(0, 0, 0), stack |-> <<>>]
        /\ thr = NoThreads

\* Combine of error.go
CallCombineSelf ==
    /\ pc = "start"
    /\ LET r == Combine(mem, errors) IN
        /\ mem' = r.mem
        /\ reg' = [reg EXCEPT !.ret = r.ret]
    /\ pc' = "combined"
    /\ UNCHANGED <<errors, given, thr>>

\* what FromSlice returns of the flattened slice
FromSliceReturn(m, s) ==
    IF s.len = 0 THEN Nil
    ELSE IF s.len = 1 THEN At(m, s, 0)
    ELSE multiError(s)

\* FromSlice up to its call of flattenTo(newErrors, errors[idx:])
EnterFlatten ==
    /\ pc = "start"
    /\ LET f == filterNil(mem, errors)
           idx == findFirstErrorGroup(f.mem, f.ret)
           mk == Make(f.mem, f.ret.len + _errorBuffer)
           hd == GoAppendAll(mk.mem, mk.ret,
                             Elems(mk.mem, [f.ret EXCEPT !.len = idx]))
       IN IF f.ret.len = 0 \/ idx < 0
          THEN /\ mem' = f.mem
               /\ reg' = [reg EXCEPT !.ret = FromSliceReturn(f.mem, f.ret)]
               /\ pc' = "fromsliced"
          ELSE /\ mem' = hd.mem
               /\ reg' = [reg EXCEPT !.dest = hd.ret,
                                     !.stack = <<[src |-> f.ret, i |-> idx]>>]
               /\ pc' = "flattenTo"
    /\ UNCHANGED <<errors, given, thr>>

\* one iteration of the loop of the innermost flattenTo, or its return; a
\* call deeper than the stack allows ends the program
StepFlattenTo ==
    /\ pc = "flattenTo"
    /\ LET d == Len(reg.stack)
           top == reg.stack[d]
           err == At(mem, top.src, top.i)
           next == [reg.stack EXCEPT ![d].i = @ + 1]
       IN IF top.i >= top.src.len
          THEN /\ mem' = mem
               /\ IF d = 1
                  THEN /\ reg' = [reg EXCEPT
                                     !.stack = <<>>,
                                     !.ret = FromSliceReturn(mem, reg.dest)]
                       /\ pc' = "fromsliced"
                  ELSE /\ reg' = [reg EXCEPT !.stack = SubSeq(@, 1, d - 1)]
                       /\ pc' = pc
          ELSE IF err.kind = "nil"
          THEN /\ mem' = mem
               /\ reg' = [reg EXCEPT !.stack = next]
               /\ pc' = pc
          ELSE IF IsErrorGroup(err)
          THEN /\ mem' = mem
               /\ IF d >= MaxStack
                  THEN reg' = reg /\ pc' = "stack overflow"
                  ELSE /\ reg' = [reg EXCEPT !.stack =
                               Append(next, [src |-> Causes(err), i |-> 0])]
                       /\ pc' = pc
          ELSE LET r == GoAppend(mem, reg.dest, err) IN
               /\ mem' = r.mem
               /\ reg' = [reg EXCEPT !.dest = r.ret, !.stack = next]
               /\ pc' = pc
    /\ UNCHANGED <<errors, given, thr>>

NextFlatten == CallCombineSelf \/ EnterFlatten \/ StepFlattenTo

SpecFlatten == InitFlatten /\ [][NextFlatten]_vars

HoldsSelfish == \E i \in 1..Len(given.elems) : given.elems[i] = Selfish

\* C25: combining terminates without failure on every finite slice, also one
\* whose composites are nested or return themselves among their causes: no
\* call ends the program
C25_FlatteningNeverFails == pc # "stack overflow"

\* the calls of flattenTo on a slice without a self-containing errorGroup
\* return, with what FromSlice computes in one piece
FlattenToReturnsOnFiniteNesting ==
    ~HoldsSelfish =>
        /\ pc # "stack overflow"
        /\ pc = "fromsliced" =>
               LET a == Literal(HeapSelf, given.elems)
                   r == FromSlice(a.mem, a.ret)
               IN View(mem, reg.ret) = View(r.mem, r.ret)

\* Combine of error.go has returned the self-containing errorGroup next to a
\* plain error, unopened
CombineKeepsSelfish ==
    /\ pc = "combined"
    /\ given.elems = <<Plain(2), Selfish>>
    /\ Constituents(mem, reg.ret) = <<Plain(2), Selfish>>

\* every call of flattenTo on the causes of the self-containing errorGroup
\* has made the same call again
SelfishRecursion ==
    /\ pc = "stack overflow"
    /\ given.elems = <<Selfish>>
    /\ Len(reg.stack) = MaxStack
    /\ \A k \in 2..Len(reg.stack) : reg.stack[k].src = Causes(Selfish)
    /\ Elems(mem, reg.dest) = [k \in 1..(MaxStack - 1) |-> Plain(1)]

----------------------------------------------------------------------------
(* SpecShare: a caller keeps the slice it passed to Combine (errs..., the   *)
(* slice perhaps with spare capacity) and afterwards writes one of its      *)
(* elements, or appends to the result                                       *)

InitShare ==
    \E n \in 2..MaxLen : \E xs \in ArgLists(n) : \E spare \in 0..1 :
        /\ mem = Append(Heap0, xs \o Zeroed(spare))
        /\ errors = Slice(Len(Heap0) + 1, n, n + spare)
        /\ given = [elems |-> xs, flat |-> Flat(Heap0, xs),
                    deep |-> DeepFlat(Heap0, xs)]
        /\ pc = "start"
        /\ reg = [ret |-> Nil, seen |-> <<>>, array |-> <<>>]
        /\ thr = NoThreads

\* errors[i] = x, after the call has returned; seen is what the result's
\* constituents were before the write
CallerWrites ==
    /\ pc \in {"combined", "fromsliced"}
    /\ \E i \in 0..(errors.len - 1) : \E x \in {Nil, Plain(2), M1} :
        mem' = [mem EXCEPT ![errors.arr][i + 1] = x]
    /\ reg' = [reg EXCEPT !.seen = IF reg.ret.kind = "multi"
                                   THEN Constituents(mem, reg.ret) ELSE <<>>]
    /\ pc' = IF pc = "combined" THEN "written" ELSE "written after FromSlice"
    /\ UNCHANGED <<errors, given, thr>>

\* ret = Append(ret, e2); array is what the caller's array held before
AppendOnto ==
    /\ pc = "combined"
    /\ LET r == multierrAppend(mem, reg.ret, Plain(2)) IN
        /\ mem' = r.mem
        /\ reg' = [reg EXCEPT !.ret = r.ret, !.array = mem[errors.arr]]
    /\ pc' = "appended"
    /\ UNCHANGED <<errors, given, thr>>

NextShare == CallCombine \/ CallFromSlice \/ CallerWrites \/ AppendOnto

SpecShare == InitShare /\ [][NextShare]_vars

\* C26: the multiError Combine returns shares no storage with the slice it
\* was given: a later write of an element of the slice leaves the result's
\* constituents as they were, and a later Append to the result leaves the
\* slice's array, spare capacity included, as it was
C26_ResultSharesNoStorage ==
    /\ (pc \in {"written", "written after FromSlice"}
            /\ reg.ret.kind = "multi") =>
           Constituents(mem, reg.ret) = reg.seen
    /\ pc = "appended" => mem[errors.arr] = reg.array

\* the same of the results Combine of error.go builds by copying: of a slice
\* that holds a nil or a multiError
CopiedResultSharesNoStorage ==
    (\E i \in 1..Len(given.elems) : given.elems[i].kind \in {"nil", "multi"})
        => /\ (pc = "written" /\ reg.ret.kind = "multi") =>
                  Constituents(mem, reg.ret) = reg.seen
           /\ pc = "appended" => mem[errors.arr] = reg.array

\* the result of Combine(e1, e2) has come to hold a nil
ResultHoldsNil ==
    /\ pc = "written"
    /\ given.elems = <<Plain(1), Plain(2)>>
    /\ reg.seen = <<Plain(1), Plain(2)>>
    /\ Constituents(mem, reg.ret) = <<Plain(1), Nil>>

\* Append to the result of Combine(errs...) has written the third slot of
\* the caller's array
AppendWroteSpare ==
    /\ pc = "appended"
    /\ given.elems = <<Plain(1), Plain(2)>>
    /\ reg.array = <<Plain(1), Plain(2), Nil>>
    /\ mem[errors.arr] = <<Plain(1), Plain(2), Plain(2)>>

----------------------------------------------------------------------------
(* SpecPool: goroutines call Error() on multiErrors at the same time; every *)
(* call takes a buffer from _bufferPool, resets it, writes its items into   *)
(* it one by one, copies the text out and puts the buffer back              *)

\* the texts of e1 and e2
PoolTexts == <<ErrorsNew(<<"a">>), ErrorsNew(<<"b">>)>>

\* _bufferPool.Get() taking buffer b out of the pool that keeps it
Get_LeavesPooled(pool, b) == pool

Get(pool, b) == pool \ {b}

\* buff.Reset() that keeps what the buffer held
Reset_KeepsText(buf) == buf

Reset(buf) == <<>>

Idle == [pc |-> "idle", me |-> Nil, buff |-> 0, i |-> 0, result |-> <<>>,
         of |-> Nil, text |-> <<>>]

InitPool ==
    /\ mem = Heap0
    /\ errors = Slice(0, 0, 0)
    /\ given = [elems |-> <<M1, M2>>, flat |-> Flat(Heap0, <<M1, M2>>),
                deep |-> DeepFlat(Heap0, <<M1, M2>>)]
    /\ pc = "running"
    /\ reg = [pool |-> {}, bufs |-> <<>>, calls |-> 0]
    /\ thr = [t \in 1..NumCallers |-> Idle]

\* me.Error() begins: buff := _bufferPool.Get(), a pooled buffer or, from
\* New, a new one
PoolGet(t) ==
    /\ thr[t].pc = "idle"
    /\ reg.calls < MaxCalls
    /\ \E me \in {M1, M2} :
        \/ \E b \in reg.pool :
            /\ reg' = [reg EXCEPT !.pool = Get(@, b), !.calls = @ + 1]
            /\ thr' = [thr EXCEPT ![t].pc = "Reset", ![t].me = me,
                                  ![t].buff = b]
        \/ /\ Len(reg.bufs) < MaxBuffers
           /\ reg' = [reg EXCEPT !.bufs = Append(@, <<>>), !.calls = @ + 1]
           /\ thr' = [thr EXCEPT ![t].pc = "Reset", ![t].me = me,
                                 ![t].buff = Len(reg.bufs) + 1]
    /\ UNCHANGED <<mem, pc, errors, given>>

\* buff.Reset()
BuffReset(t) ==
    /\ thr[t].pc = "Reset"
    /\ reg' = [reg EXCEPT !.bufs[thr[t].buff] = Reset(@)]
    /\ thr' = [thr EXCEPT ![t].pc = "write", ![t].i = 0]
    /\ UNCHANGED <<mem, pc, errors, given>>

\* one iteration of writeSingleline's loop on buff
WriteItem(t) ==
    /\ thr[t].pc = "write"
    /\ LET me == AsSlice(thr[t].me)
           i == thr[t].i
           sep == IF i = 0 THEN <<>> ELSE _singlelineSeparator
           s == ErrorOf(PoolTexts, mem, At(mem, me, i))
       IN /\ reg' = [reg EXCEPT !.bufs[thr[t].buff] = @ \o sep \o s]
          /\ thr' = [thr EXCEPT ![t].i = i + 1,
                                ![t].pc = IF i + 1 >= me.len THEN "String"
                                          ELSE "write"]
    /\ UNCHANGED <<mem, pc, errors, given>>

\* result := buff.String()
BuffString(t) ==
    /\ thr[t].pc = "String"
    /\ thr' = [thr EXCEPT ![t].result = reg.bufs[thr[t].buff],
                          ![t].pc = "Put"]
    /\ UNCHANGED <<mem, pc, errors, given, reg>>

\* _bufferPool.Put(buff); return result: "of" and "text" are the multiError
\* of the call that returned last and what it returned
PoolPut(t) ==
    /\ thr[t].pc = "Put"
    /\ reg' = [reg EXCEPT !.pool = @ \cup {thr[t].buff}]
    /\ thr' = [thr EXCEPT ![t].pc = "idle", ![t].buff = 0,
                          ![t].of = thr[t].me, ![t].text = thr[t].result]
    /\ UNCHANGED <<mem, pc, errors, given>>

NextPool ==
    \E t \in 1..NumCallers :
        \/ PoolGet(t)
        \/ BuffReset(t)
        \/ WriteItem(t)
        \/ BuffString(t)
        \/ PoolPut(t)

SpecPool == InitPool /\ [][NextPool]_vars

\* C27: between its Get and its Put a buffer is held by one call only, and
\* is not in the pool; and every call of Error() has returned the compact
\* text of its own multiError
C27_PooledBuffersAreExclusive ==
    /\ \A t \in 1..NumCallers : thr[t].buff # 0 =>
           /\ thr[t].buff \notin reg.pool
           /\ \A u \in 1..NumCallers : u # t => thr[u].buff # thr[t].buff
    /\ \A t \in 1..NumCallers : thr[t].of # Nil =>
           thr[t].text = Error(PoolTexts, mem, AsSlice(thr[t].of))

\* two calls on different multiErrors are writing at the same time, one of
\* them into a buffer an earlier call has used, and a call has returned
C27_Witness ==
    /\ thr[1].pc = "write" /\ thr[1].me = M1 /\ thr[1].i = 1
    /\ thr[2].pc = "write" /\ thr[2].me = M2 /\ thr[2].i = 2
    /\ thr[1].of = M2
    /\ thr[1].text = <<"b", ";", " ", "a", ";", " ", "a">>
    /\ thr[2].buff # thr[1].buff

====
